---- MODULE Spec2Model ----
(***************************************************************************)
(* KRPC messages of the DHT (package krpc, msg.go): the Msg envelope with  *)
(* its query arguments (MsgArgs), return value (Return) and error payload, *)
(* the accessors SenderID and Error, the node iteration ForAllNodes, and   *)
(* the bencode field tags of the three structs.                            *)
(*                                                                         *)
(* Go values are modelled as follows.  A pointer is a sequence of length   *)
(* at most one: Nil is the nil pointer, Ref(v) a pointer to v.  A slice is *)
(* a record [isnil, elems], so that a nil slice and an empty non-nil slice *)
(* are different values, as they are in Go.  An ID is a number; 0 is the   *)
(* zero value of the type, which is what a field that was never set holds. *)
(***************************************************************************)
EXTENDS Integers, Sequences, FiniteSets, TLC

\* Number of distinct non-zero node identifiers.
MaxID == 2
\* Longest node list handed to ForAllNodes.
MaxLen == 2
\* Longest list carried by a message that is encoded.
MaxElems == 1

VARIABLES
    req,      \* the fields the last struct literal was written with (Nil before)
    msg,      \* the Msg built by it (Nil before)
    sid,      \* Nil, or Ref(result of msg.SenderID())
    err,      \* Nil, or Ref(result of msg.Error())
    wire,     \* Nil, or Ref(the bencode dictionary msg was marshalled to)
    dec,      \* Nil, or Ref(the Msg unmarshalled from wire)
    ret,      \* the Return ForAllNodes runs on (Nil when it is not running)
    pc,       \* position inside ForAllNodes
    idx,      \* index of the range loop in progress
    visited   \* the arguments f was called with, in call order

vars == <<req, msg, sid, err, wire, dec, ret, pc, idx, visited>>

(***************************************************************************)
(* Go values                                                               *)
(***************************************************************************)
Nil == <<>>
Ref(v) == <<v>>
Deref(p) == p[1]

NilSlice == [isnil |-> TRUE, elems |-> <<>>]
Slice(s) == [isnil |-> FALSE, elems |-> s]

ZeroID == 0
IDs == ZeroID..MaxID

ZeroAddr == [IP |-> 0, Port |-> 0]

SeqsUpTo(S, n) == UNION {[1..k -> S] : k \in 0..n}

(***************************************************************************)
(* The structs.  A struct literal leaves every field it does not name at   *)
(* its zero value.                                                         *)
(***************************************************************************)
ZeroMsgArgs ==
    [ID |-> ZeroID, InfoHash |-> ZeroID, Target |-> ZeroID, Token |-> "",
     Port |-> Nil, ImpliedPort |-> FALSE, Want |-> NilSlice,
     NoSeed |-> 0, Scrape |-> 0, V |-> Nil]

ZeroReturn ==
    [ID |-> ZeroID, Nodes |-> NilSlice, Nodes6 |-> NilSlice, Token |-> Nil,
     Values |-> NilSlice, BFsd |-> Nil, BFpe |-> Nil,
     Interval |-> Nil, Num |-> Nil, Samples |-> Nil, V |-> Nil]

ZeroMsg ==
    [Q |-> "", A |-> Nil, T |-> "", Y |-> "", R |-> Nil, E |-> Nil,
     IP |-> ZeroAddr, ReadOnly |-> FALSE]

\* Msg{...}: a struct literal.  The type has no constructor and no
\* validation: the value holds exactly the fields it was written with.
NewMsgExclusive(f) ==
    Ref([f EXCEPT !.A = IF f.Y = "q" THEN f.A ELSE Nil,
                  !.R = IF f.Y = "r" THEN f.R ELSE Nil,
                  !.E = IF f.Y = "e" THEN f.E ELSE Nil])

NewMsgCheckedID(f) ==
    IF f.Y = "r" /\ f.R # Nil /\ Deref(f.R).ID = ZeroID THEN Nil ELSE Ref(f)

NewMsg(f) == Ref(f)

(***************************************************************************)
(* The accessors                                                           *)
(***************************************************************************)
\* A *ID result: the nil pointer, or a pointer to the ID it holds.  A nil
\* pointer dereference is a run-time panic.
NilID == [st |-> "nil", v |-> ZeroID]
PtrID(id) == [st |-> "ptr", v |-> id]
Panic == [st |-> "panic", v |-> ZeroID]

SenderIDSwapped(m) ==
    IF m.Y = "q" THEN (IF m.R = Nil THEN NilID ELSE PtrID(Deref(m.R).ID))
    ELSE IF m.Y = "r" THEN (IF m.A = Nil THEN NilID ELSE PtrID(Deref(m.A).ID))
    ELSE NilID

SenderIDNoNilCheck(m) ==
    IF m.Y = "q" THEN (IF m.A = Nil THEN Panic ELSE PtrID(Deref(m.A).ID))
    ELSE IF m.Y = "r" THEN (IF m.R = Nil THEN Panic ELSE PtrID(Deref(m.R).ID))
    ELSE NilID

SenderIDAnyPayload(m) ==
    IF m.Y = "q" /\ m.A # Nil THEN PtrID(Deref(m.A).ID)
    ELSE IF m.Y \in {"q", "r"} /\ m.R # Nil THEN PtrID(Deref(m.R).ID)
    ELSE NilID

SenderID(m) ==
    IF m.Y = "q" THEN (IF m.A = Nil THEN NilID ELSE PtrID(Deref(m.A).ID))
    ELSE IF m.Y = "r" THEN (IF m.R = Nil THEN NilID ELSE PtrID(Deref(m.R).ID))
    ELSE NilID

ErrorAnyTag(m) == m.E

Error(m) == IF m.Y # "e" THEN Nil ELSE m.E

(***************************************************************************)
(* Inputs of the accessor specification                                    *)
(***************************************************************************)
Tags == {"q", "r", "e", "x", ""}
GenericError == [Code |-> 201, Msg |-> "Generic Error"]
ServerError == [Code |-> 202, Msg |-> "Server Error"]

AccArgs == {[ZeroMsgArgs EXCEPT !.ID = id] : id \in IDs}
AccReturns == {[ZeroReturn EXCEPT !.ID = id] : id \in IDs}

AccInputs ==
    [Q : {"", "ping"}, A : {Nil} \cup {Ref(a) : a \in AccArgs},
     T : {"aa", "ab"}, Y : Tags,
     R : {Nil} \cup {Ref(r) : r \in AccReturns},
     E : {Nil, Ref(GenericError), Ref(ServerError)},
     IP : {ZeroAddr, [IP |-> 1, Port |-> 6881]}, ReadOnly : BOOLEAN]

(***************************************************************************)
(* Actions                                                                 *)
(***************************************************************************)
Init ==
    /\ req = Nil /\ msg = Nil /\ sid = Nil /\ err = Nil
    /\ wire = Nil /\ dec = Nil
    /\ ret = Nil /\ pc = "idle" /\ idx = 1 /\ visited = <<>>

\* One behaviour follows one message from its construction on.
Construct(f) ==
    /\ req = Nil
    /\ req' = Ref(f)
    /\ msg' = NewMsg(f)
    /\ sid' = Nil /\ err' = Nil /\ wire' = Nil /\ dec' = Nil
    /\ UNCHANGED <<ret, pc, idx, visited>>

CallSenderID ==
    /\ msg # Nil
    /\ sid' = Ref(SenderID(Deref(msg)))
    /\ UNCHANGED <<req, msg, err, wire, dec, ret, pc, idx, visited>>

CallError ==
    /\ msg # Nil
    /\ err' = Ref(Error(Deref(msg)))
    /\ UNCHANGED <<req, msg, sid, wire, dec, ret, pc, idx, visited>>

ConstructAny == \E f \in AccInputs : Construct(f)

Next == ConstructAny \/ CallSenderID \/ CallError

Spec == Init /\ [][Next]_vars

(***************************************************************************)
(* ForAllNodes                                                             *)
(***************************************************************************)
\* The entries of Nodes (IPv4) and of Nodes6 (IPv6).
V4Nodes == {[ID |-> i, Fam |-> 4] : i \in 1..MaxID}
V6Nodes == {[ID |-> i, Fam |-> 6] : i \in 1..MaxID}

NodeLists(S) == {NilSlice} \cup {Slice(s) : s \in SeqsUpTo(S, MaxLen)}

NodesInputs ==
    {[ZeroReturn EXCEPT !.ID = 1, !.Nodes = n4, !.Nodes6 = n6] :
        n4 \in NodeLists(V4Nodes), n6 \in NodeLists(V6Nodes)}

\* The slice each of the two range loops runs over.
RangeOverSwapped(r, loop) ==
    IF loop = "nodes" THEN r.Nodes6.elems ELSE r.Nodes.elems

RangeOver(r, loop) ==
    IF loop = "nodes" THEN r.Nodes.elems ELSE r.Nodes6.elems

CallForAllNodes(r) ==
    /\ pc = "idle"
    /\ ret' = Ref(r)
    /\ pc' = "nodes"
    /\ idx' = 1
    /\ visited' = <<>>
    /\ UNCHANGED <<req, msg, sid, err, wire, dec>>

\* for _, n := range r.Nodes { f(n) }
VisitNode ==
    /\ pc = "nodes"
    /\ idx <= Len(RangeOver(Deref(ret), "nodes"))
    /\ visited' = Append(visited, RangeOver(Deref(ret), "nodes")[idx])
    /\ idx' = idx + 1
    /\ UNCHANGED <<req, msg, sid, err, wire, dec, ret, pc>>

EndNodes ==
    /\ pc = "nodes"
    /\ idx > Len(RangeOver(Deref(ret), "nodes"))
    /\ pc' = "nodes6"
    /\ idx' = 1
    /\ UNCHANGED <<req, msg, sid, err, wire, dec, ret, visited>>

\* for _, n := range r.Nodes6 { f(n) }
VisitNode6 ==
    /\ pc = "nodes6"
    /\ idx <= Len(RangeOver(Deref(ret), "nodes6"))
    /\ visited' = Append(visited, RangeOver(Deref(ret), "nodes6")[idx])
    /\ idx' = idx + 1
    /\ UNCHANGED <<req, msg, sid, err, wire, dec, ret, pc>>

EndNodes6 ==
    /\ pc = "nodes6"
    /\ idx > Len(RangeOver(Deref(ret), "nodes6"))
    /\ pc' = "done"
    /\ UNCHANGED <<req, msg, sid, err, wire, dec, ret, idx, visited>>

CallForAllNodesAny == \E r \in NodesInputs : CallForAllNodes(r)

NextNodes ==
    CallForAllNodesAny \/ VisitNode \/ EndNodes \/ VisitNode6 \/ EndNodes6

SpecNodes == Init /\ [][NextNodes]_vars

(***************************************************************************)
(* The bencode form of the structs.  Each struct field carries a tag       *)
(* `bencode:"key"` or `bencode:"key,omitempty"`; a table row holds the     *)
(* field, its dictionary key, the kind of its Go type and whether the tag  *)
(* says omitempty.  A dictionary is a function from the keys present to    *)
(* their values.                                                           *)
(***************************************************************************)
F(field, key, kind, omitempty) ==
    [field |-> field, key |-> key, kind |-> kind, omitempty |-> omitempty]

MsgArgsTags ==
    << F("ID", "id", "id", FALSE),
       F("InfoHash", "info_hash", "id", TRUE),
       F("Target", "target", "id", TRUE),
       F("Token", "token", "string", TRUE),
       F("Port", "port", "ptr", TRUE),
       F("ImpliedPort", "implied_port", "bool", TRUE),
       F("Want", "want", "slice", TRUE),
       F("NoSeed", "noseed", "int", TRUE),
       F("Scrape", "scrape", "int", TRUE),
       F("V", "v", "iface", TRUE) >>

\* Nodes6 tagged with the key of Nodes.
ReturnTagsKeyClash ==
    << F("ID", "id", "id", FALSE),
       F("Nodes", "nodes", "slice", TRUE),
       F("Nodes6", "nodes", "slice", TRUE),
       F("Token", "token", "ptr", TRUE),
       F("Values", "values", "slice", TRUE),
       F("BFsd", "BFsd", "ptr", TRUE),
       F("BFpe", "BFpe", "ptr", TRUE),
       F("Interval", "interval", "ptr", TRUE),
       F("Num", "num", "ptr", TRUE),
       F("Samples", "samples", "ptr", TRUE),
       F("V", "v", "iface", TRUE) >>

\* The fields of the embedded Bep51Return are keys of the same dictionary.
ReturnTags ==
    << F("ID", "id", "id", FALSE),
       F("Nodes", "nodes", "slice", TRUE),
       F("Nodes6", "nodes6", "slice", TRUE),
       F("Token", "token", "ptr", TRUE),
       F("Values", "values", "slice", TRUE),
       F("BFsd", "BFsd", "ptr", TRUE),
       F("BFpe", "BFpe", "ptr", TRUE),
       F("Interval", "interval", "ptr", TRUE),
       F("Num", "num", "ptr", TRUE),
       F("Samples", "samples", "ptr", TRUE),
       F("V", "v", "iface", TRUE) >>

MsgTags ==
    << F("Q", "q", "string", TRUE),
       F("A", "a", "args", TRUE),
       F("T", "t", "string", FALSE),
       F("Y", "y", "string", FALSE),
       F("R", "r", "return", TRUE),
       F("E", "e", "error", TRUE),
       F("IP", "ip", "addr", TRUE),
       F("ReadOnly", "ro", "bool", TRUE) >>

\* The zero value of a field's type: what a field is left at when the
\* dictionary has no key for it.
ZeroValue(kind) ==
    CASE kind = "string" -> ""
      [] kind = "int" -> 0
      [] kind = "bool" -> FALSE
      [] kind = "id" -> ZeroID
      [] kind = "slice" -> NilSlice
      [] kind = "addr" -> ZeroAddr
      [] OTHER -> Nil

\* omitempty: the field is left out when it holds false, 0, the empty
\* string, a nil pointer or interface, a slice of length 0, or a struct or
\* array of zero values.  A non-nil pointer is never empty, whatever it
\* points to.
IsEmptyValue(kind, v) ==
    CASE kind = "string" -> v = ""
      [] kind = "int" -> v = 0
      [] kind = "bool" -> v = FALSE
      [] kind = "id" -> v = ZeroID
      [] kind = "slice" -> Len(v.elems) = 0
      [] kind = "addr" -> v = ZeroAddr
      [] OTHER -> v = Nil

RECURSIVE Marshal(_, _)
RECURSIVE Unmarshal(_, _)

\* The dictionary of a struct under its tag table.
EncodeStruct(s, tags) ==
    LET present == {i \in 1..Len(tags) :
                       ~(tags[i].omitempty
                           /\ IsEmptyValue(tags[i].kind, s[tags[i].field]))}
    IN  [k \in {tags[i].key : i \in present} |->
            LET i == CHOOSE j \in present : tags[j].key = k
            IN  Marshal(tags[i].kind, s[tags[i].field])]

\* The struct a dictionary unmarshals to.
DecodeStruct(d, tags) ==
    [f \in {tags[i].field : i \in 1..Len(tags)} |->
        LET i == CHOOSE j \in 1..Len(tags) : tags[j].field = f
        IN  IF tags[i].key \in DOMAIN d
                THEN Unmarshal(tags[i].kind, d[tags[i].key])
                ELSE ZeroValue(tags[i].kind)]

EncodeMsgArgs(a) == EncodeStruct(a, MsgArgsTags)
DecodeMsgArgs(d) == DecodeStruct(d, MsgArgsTags)

\* samples left out when it has no entries.
EncodeReturnDropEmptySamples(r) ==
    LET d == EncodeStruct(r, ReturnTags)
        drop == IF "samples" \in DOMAIN d /\ d["samples"] = <<>>
                    THEN {"samples"} ELSE {}
    IN  [k \in DOMAIN d \ drop |-> d[k]]

EncodeReturn(r) == EncodeStruct(r, ReturnTags)
DecodeReturn(d) == DecodeStruct(d, ReturnTags)

\* An error is the list [code, message].
EncodeError(e) == <<e.Code, e.Msg>>
DecodeError(w) == [Code |-> w[1], Msg |-> w[2]]

\* Values on the wire: a bool is the integer 1 or 0, a pointer or an
\* interface is the value it holds, a slice is the list (or the compact
\* byte string) of its entries, an address the compact pair, a struct its
\* dictionary.
Marshal(kind, v) ==
    CASE kind = "args" -> EncodeMsgArgs(Deref(v))
      [] kind = "return" -> EncodeReturn(Deref(v))
      [] kind = "error" -> EncodeError(Deref(v))
      [] kind = "bool" -> IF v THEN 1 ELSE 0
      [] kind \in {"ptr", "iface"} -> Deref(v)
      [] kind = "slice" -> v.elems
      [] kind = "addr" -> <<v.IP, v.Port>>
      [] OTHER -> v

Unmarshal(kind, w) ==
    CASE kind = "args" -> Ref(DecodeMsgArgs(w))
      [] kind = "return" -> Ref(DecodeReturn(w))
      [] kind = "error" -> Ref(DecodeError(w))
      [] kind = "bool" -> w # 0
      [] kind \in {"ptr", "iface"} -> Ref(w)
      [] kind = "slice" -> Slice(w)
      [] kind = "addr" -> [IP |-> w[1], Port |-> w[2]]
      [] OTHER -> w

EncodeMsg(m) == EncodeStruct(m, MsgTags)
DecodeMsg(d) == DecodeStruct(d, MsgTags)

(***************************************************************************)
(* Inputs of the codec specification: queries, responses and errors with   *)
(* every optional field absent, present and empty (zero), or present and   *)
(* non-empty.                                                              *)
(***************************************************************************)
Lists(S) == {NilSlice} \cup {Slice(s) : s \in SeqsUpTo(S, MaxElems)}
Opt(S) == {Nil} \cup {Ref(v) : v \in S}
PeerAddr == [IP |-> 1, Port |-> 6881]

\* Query arguments: the fields held by value varied together, and the
\* pointer, slice and interface fields varied together.
CodecArgs ==
    {[ZeroMsgArgs EXCEPT !.ID = id, !.InfoHash = ih, !.Token = tk,
                         !.ImpliedPort = ip, !.NoSeed = ns] :
        id \in 0..1, ih \in 0..1, tk \in {"", "tk"}, ip \in BOOLEAN,
        ns \in 0..1}
    \cup
    {[ZeroMsgArgs EXCEPT !.ID = 1, !.Token = tk, !.Port = po, !.Want = wa,
                         !.V = v] :
        tk \in {"", "tk"}, po \in Opt({0, 6881}),
        wa \in Lists({"n4", "n6"}), v \in Opt({"v"})}

\* Return values: the list fields varied together, and the pointer and
\* interface fields varied together.
CodecReturns ==
    {[ZeroReturn EXCEPT !.ID = id, !.Nodes = n4, !.Nodes6 = n6,
                        !.Values = vs, !.Samples = sa] :
        id \in 0..1, n4 \in Lists({[ID |-> 1, Fam |-> 4]}),
        n6 \in Lists({[ID |-> 1, Fam |-> 6]}), vs \in Lists({PeerAddr}),
        sa \in Opt(SeqsUpTo({1}, MaxElems))}
    \cup
    {[ZeroReturn EXCEPT !.ID = 1, !.Token = tk, !.BFsd = bf,
                        !.Interval = iv, !.Num = nu, !.Samples = sa,
                        !.V = v] :
        tk \in Opt({"", "tk"}), bf \in Opt({"bf"}), iv \in Opt({0, 5}),
        nu \in Opt({0}), sa \in Opt(SeqsUpTo({1}, MaxElems)),
        v \in Opt({"v"})}

CodecInputs ==
    {[ZeroMsg EXCEPT !.Y = "q", !.Q = q, !.T = "aa", !.A = Ref(a),
                     !.ReadOnly = ro] :
        q \in {"ping", "vendor"}, a \in CodecArgs, ro \in BOOLEAN}
    \cup
    {[ZeroMsg EXCEPT !.Y = "r", !.T = "aa", !.R = Ref(r), !.IP = ip] :
        r \in CodecReturns, ip \in {ZeroAddr, PeerAddr}}
    \cup
    {[ZeroMsg EXCEPT !.Y = "e", !.T = t, !.E = Ref(e)] :
        t \in {"", "aa"}, e \in {GenericError, ServerError}}

\* bencode.Marshal(msg)
Encode ==
    /\ msg # Nil
    /\ wire = Nil
    /\ wire' = Ref(EncodeMsg(Deref(msg)))
    /\ UNCHANGED <<req, msg, sid, err, dec, ret, pc, idx, visited>>

\* bencode.Unmarshal(wire, &m)
Decode ==
    /\ wire # Nil
    /\ dec = Nil
    /\ dec' = Ref(DecodeMsg(Deref(wire)))
    /\ UNCHANGED <<req, msg, sid, err, wire, ret, pc, idx, visited>>

ConstructValid == \E f \in CodecInputs : Construct(f)

NextCodec == ConstructValid \/ Encode \/ Decode

SpecCodec == Init /\ [][NextCodec]_vars

(***************************************************************************)
(* Properties of the accessors (specification Spec)                        *)
(***************************************************************************)
\* The payloads the variant tag does not select, removed.
Selected(m) ==
    [m EXCEPT !.A = IF m.Y = "q" THEN m.A ELSE Nil,
              !.R = IF m.Y = "r" THEN m.R ELSE Nil,
              !.E = IF m.Y = "e" THEN m.E ELSE Nil]

\* Exactly one payload, the one the tag names.
WellFormed(m) ==
    /\ m.Y \in {"q", "r", "e"}
    /\ (m.A # Nil) <=> (m.Y = "q")
    /\ (m.R # Nil) <=> (m.Y = "r")
    /\ (m.E # Nil) <=> (m.Y = "e")

\* A payload is attached that the tag does not select.
HasIllegalPayload(m) ==
    \/ (m.Y # "q" /\ m.A # Nil)
    \/ (m.Y # "r" /\ m.R # Nil)
    \/ (m.Y # "e" /\ m.E # Nil)

\* Two messages agree on the tag and on the payload the tag selects.
Agree(m, n) ==
    /\ m.Y = n.Y
    /\ (m.Y = "q" => m.A = n.A)
    /\ (m.Y = "r" => m.R = n.R)
    /\ (m.Y = "e" => m.E = n.E)

\* C1: SenderID returns the id of the payload the tag selects: the
\* arguments' id for "q", the return value's id for "r", nil for "e".
C1_SenderIDSelectsPayload ==
    sid # Nil =>
        LET m == Deref(msg)
            r == Deref(sid)
        IN  /\ (m.Y = "q" /\ m.A # Nil => r = PtrID(Deref(m.A).ID))
            /\ (m.Y = "r" /\ m.R # Nil => r = PtrID(Deref(m.R).ID))
            /\ (m.Y = "e" => r = NilID)

C1_Witness ==
    /\ sid # Nil
    /\ Deref(msg).Y = "q"
    /\ Deref(msg).A # Nil /\ Deref(Deref(msg).A).ID = 1
    /\ Deref(msg).R # Nil /\ Deref(Deref(msg).R).ID = 2
    /\ Deref(sid) = PtrID(1)

\* C2: SenderID is total: whatever the tag and whichever payloads are
\* present it returns nil or a pointer to an ID and never panics; a "q"
\* without arguments, an "r" without return value and any other tag
\* give nil.
C2_SenderIDTotal ==
    sid # Nil =>
        LET m == Deref(msg)
            r == Deref(sid)
        IN  /\ r.st \in {"nil", "ptr"}
            /\ r.v \in IDs
            /\ (m.Y = "q" /\ m.A = Nil => r = NilID)
            /\ (m.Y = "r" /\ m.R = Nil => r = NilID)
            /\ (m.Y \notin {"q", "r"} => r = NilID)

C2_Witness ==
    /\ sid = Ref(NilID)
    /\ Deref(msg).Y = "q"
    /\ Deref(msg).A = Nil
    /\ Deref(msg).R # Nil

\* C3: Error returns the error payload if and only if the tag is "e":
\* nil for every other tag even when an error payload is attached, and
\* the message's own E, unchanged, for "e".
C3_ErrorIffErrorTag ==
    err # Nil =>
        LET m == Deref(msg)
        IN  /\ (m.Y # "e" => Deref(err) = Nil)
            /\ (m.Y = "e" => Deref(err) = m.E)

C3_Witness ==
    /\ err = Ref(Nil)
    /\ Deref(msg).Y = "q"
    /\ Deref(msg).E = Ref(GenericError)

C9_NilWhenIDNotSet ==
    sid # Nil =>
        LET m == Deref(msg)
        IN  /\ (m.Y = "q" /\ m.A # Nil /\ Deref(m.A).ID = ZeroID
                    => Deref(sid) = NilID)
            /\ (m.Y = "r" /\ m.R # Nil /\ Deref(m.R).ID = ZeroID
                    => Deref(sid) = NilID)

\* C10: SenderID and Error depend only on the tag and the payload the tag
\* selects: every message that agrees with msg on both gives the results
\* msg gave, whatever its other fields hold.
C10_OnlySelectedPayload ==
    (sid # Nil /\ err # Nil) =>
        \A n \in {x \in AccInputs : x.Y = Deref(msg).Y} :
            Agree(Deref(msg), n) =>
                /\ SenderID(n) = Deref(sid)
                /\ Error(n) = Deref(err)

C10_Witness ==
    /\ sid = Ref(PtrID(1))
    /\ err = Ref(Nil)
    /\ Deref(msg).Y = "q"
    /\ Deref(msg).A # Nil /\ Deref(Deref(msg).A).ID = 1
    /\ Deref(msg).R # Nil /\ Deref(Deref(msg).R).ID = 2
    /\ Deref(msg).E # Nil

(***************************************************************************)
(* Properties of ForAllNodes (specification SpecNodes)                     *)
(***************************************************************************)
\* C4: ForAllNodes calls f once per entry, the entries of Nodes in list
\* order first and then the entries of Nodes6 in list order: at every
\* point the calls made are a prefix of Nodes followed by Nodes6, no
\* Nodes6 entry precedes a Nodes entry, and on return the number of calls
\* is len(Nodes) + len(Nodes6).
C4_NodesThenNodes6 ==
    ret # Nil =>
        LET r == Deref(ret)
            all == r.Nodes.elems \o r.Nodes6.elems
        IN  /\ Len(visited) <= Len(all)
            /\ visited = SubSeq(all, 1, Len(visited))
            /\ \A i, j \in 1..Len(visited) :
                   i < j => ~(visited[i].Fam = 6 /\ visited[j].Fam = 4)
            /\ (pc = "nodes" => Len(visited) = idx - 1)
            /\ (pc = "nodes6" =>
                   Len(visited) = Len(r.Nodes.elems) + idx - 1)
            /\ (pc = "done" =>
                   /\ visited = all
                   /\ Len(visited) =
                          Len(r.Nodes.elems) + Len(r.Nodes6.elems))

C4_Witness ==
    /\ pc = "done"
    /\ ret # Nil
    /\ Len(Deref(ret).Nodes.elems) = 2
    /\ Len(Deref(ret).Nodes6.elems) = 2
    /\ Deref(ret).Nodes.elems[1] # Deref(ret).Nodes.elems[2]
    /\ Len(visited) = 4

(***************************************************************************)
(* Properties of the bencode form (specification SpecCodec)                *)
(***************************************************************************)
\* A slice of length 0 made the nil slice.
NilIfEmpty(sl) == IF Len(sl.elems) = 0 THEN NilSlice ELSE sl

\* m with every empty slice field made nil.
NilEmptySlices(m) ==
    [m EXCEPT
        !.A = IF m.A = Nil THEN Nil
              ELSE Ref([Deref(m.A) EXCEPT !.Want = NilIfEmpty(@)]),
        !.R = IF m.R = Nil THEN Nil
              ELSE Ref([Deref(m.R) EXCEPT !.Nodes = NilIfEmpty(@),
                                          !.Nodes6 = NilIfEmpty(@),
                                          !.Values = NilIfEmpty(@)])]

\* A valid envelope: one payload, the one the tag names, with its ID set.
ValidEnvelope(m) ==
    /\ WellFormed(m)
    /\ (m.Y = "q" => Deref(m.A).ID # ZeroID)
    /\ (m.Y = "r" => Deref(m.R).ID # ZeroID)

C7_SamplesThreeStates ==
    (dec # Nil /\ Deref(msg).Y = "r") =>
        LET r == Deref(Deref(msg).R)
            w == Deref(wire)["r"]
            d == Deref(Deref(dec).R)
        IN  /\ (r.Samples = Nil =>
                   /\ "samples" \notin DOMAIN w
                   /\ d.Samples = Nil)
            /\ (r.Samples # Nil =>
                   /\ "samples" \in DOMAIN w
                   /\ w["samples"] = Deref(r.Samples)
                   /\ d.Samples # Nil
                   /\ Deref(d.Samples) = Deref(r.Samples))

C7_Witness ==
    /\ dec # Nil
    /\ Deref(msg).Y = "r"
    /\ Deref(Deref(msg).R).Samples = Ref(<<>>)
    /\ Deref(wire)["r"]["samples"] = <<>>
    /\ Deref(Deref(dec).R).Samples = Ref(<<>>)

====
